---- MODULE Spec2Model ----
(***************************************************************************)
(* A model of diff_editor: the opcode generator and the replace refiner of *)
(* my_diff_lib.py (on top of difflib.SequenceMatcher), and the collapse /  *)
(* expand bookkeeping, the line numbers, the update timer and the          *)
(* highlight loop of DiffEditor in main.py.                                *)
(*                                                                         *)
(* Indices are 0-based as in the Python source; At(s, i) reads s[i].       *)
(* A line of the library part is a tuple of one-character strings.         *)
(***************************************************************************)
EXTENDS Integers, Sequences, FiniteSets, TLC

VARIABLES
    a, b,          \* SequenceMatcher.a, SequenceMatcher.b: the two line sequences
    call,          \* the library call made last, with its arguments
    out            \* the opcodes that call yielded, in order

VARIABLES
    old_text, new_text,   \* main(): the two texts handed to MainWindow
    phase,                \* "constructed": DiffEditor() has run; "shown":
                          \* MainWindow has called set_diff_text
    original_old,         \* DiffEditor.original_old
    original_new,         \* DiffEditor.original_new
    collapsed_sections,   \* DiffEditor.collapsed_sections
    old_doc, new_doc,     \* the blocks of old.editor.document() and of
                          \* new.editor.document(): text and userState
    highlight_src,        \* the two plain texts update_diff last diffed
    clicked               \* the last placeholderClicked(index) delivered to
                          \* expand_section, and what the slot did with it

VARIABLES
    update_timer,  \* DiffEditor.update_timer: the time in ms left to each
                   \* timeout the event loop holds for it, none when it is
                   \* not running
    since_edit,    \* the time in ms since new.editor last emitted
                   \* textChanged, up to UPDATE_DELAY_MS
    burst          \* the textChanged signals less than UPDATE_DELAY_MS
                   \* apart that ended with the last one, counted, and the
                   \* calls of update_diff the timer has made since the
                   \* first of them

VARIABLES
    opcodes,       \* update_diff: the list fast_diff_match_patch.diff returned
    update         \* update_diff: where the call is, i, the positions of
                   \* old_cursor and new_cursor, old_highlights and
                   \* new_highlights

libvars == <<a, b, call, out>>
edvars == <<old_text, new_text, phase, original_old, original_new,
            collapsed_sections, old_doc, new_doc, highlight_src, clicked>>
updvars == <<update_timer, since_edit, burst, opcodes, update>>
vars == <<a, b, call, out, old_text, new_text, phase, original_old,
          original_new, collapsed_sections, old_doc, new_doc, highlight_src,
          clicked, update_timer, since_edit, burst, opcodes, update>>

----------------------------------------------------------------------------
(* Bounds of the model *)

MaxLen == 3        \* longest old / new line sequence enumerated exhaustively
MaxRefineLen == 2  \* longest sequence the refiner is called on directly
MaxRun == 8        \* longest run of unchanged lines between two edit sites
MaxChars == 2      \* longest text the user types into, in characters
MaxEdits == 3      \* the textChanged signals of a burst are counted up to here
MaxLineChars == 3  \* longest line handed to _get_intra_line_opcodes

----------------------------------------------------------------------------
(* Generic helpers *)

At(s, i) == s[i + 1]

Slice(s, lo, hi) == IF hi <= lo THEN <<>> ELSE SubSeq(s, lo + 1, hi)

Range(s) == {s[k] : k \in 1..Len(s)}

Count(s, x) == Cardinality({k \in 1..Len(s) : s[k] = x})

Min2(x, y) == IF x <= y THEN x ELSE y

RECURSIVE SumSizes(_, _)
SumSizes(blocks, k) ==
    IF k > Len(blocks) THEN 0 ELSE blocks[k][3] + SumSizes(blocks, k + 1)

SeqsUpTo(S, n) == UNION {[1..k -> S] : k \in 0..n}

----------------------------------------------------------------------------
(* Tag, my_diff_lib.py lines 5-19 *)

REPLACE == 0
DELETE == 1
INSERT == 2
EQUAL == 3
COUNT == 4

----------------------------------------------------------------------------
(* difflib.SequenceMatcher, the base class of my_diff_lib.SequenceMatcher  *)

\* difflib.IS_CHARACTER_JUNK(ch, ws=" \t")
IS_CHARACTER_JUNK == {" ", "\t"}

\* __chain_b applies the autojunk heuristic only to sequences this long
AutojunkMinLen == 200
AutojunkDivisor == 100

\* __chain_b: b2j maps each element of b2 that is neither junk nor popular
\* to the indices at which it occurs; bjunk and bpopular are the junk and
\* the popular elements
chain_b(b2, isjunk, autojunk) ==
    LET n == Len(b2)
        junk == {x \in Range(b2) : x \in isjunk}
        popular ==
            IF autojunk /\ n >= AutojunkMinLen
            THEN {x \in Range(b2) \ junk : Count(b2, x) > (n \div AutojunkDivisor) + 1}
            ELSE {}
    IN [b2j |-> [x \in (Range(b2) \ junk) \ popular |->
                    {j \in 0..(n - 1) : At(b2, j) = x}],
        bjunk |-> junk, bpopular |-> popular]

\* b2j.get(x, nothing)
B2jGet(cb, x) == IF x \in DOMAIN cb.b2j THEN cb.b2j[x] ELSE {}

\* newj2len[j] while the outer loop is at i: the length of the run of the
\* pairs the two loops visit (hits) that ends at (i, j)
RECURSIVE j2len(_, _, _)
j2len(hits, i, j) ==
    IF <<i, j>> \notin hits THEN 0 ELSE 1 + j2len(hits, i - 1, j - 1)

\* the while loops of find_longest_match that extend the match m =
\* (besti, bestj, bestsize) backwards, over non-junk elements (wantjunk
\* FALSE) or over junk elements (wantjunk TRUE): e is the number of passes
\* the loop makes
ExtendBack(a2, b2, cb, alo, blo, m, wantjunk) ==
    LET maxe == Min2(m[1] - alo, m[2] - blo)
        ok(d) == /\ (At(b2, m[2] - d) \in cb.bjunk) = wantjunk
                 /\ At(a2, m[1] - d) = At(b2, m[2] - d)
        e == CHOOSE n \in 0..maxe :
                /\ \A d \in 1..n : ok(d)
                /\ n = maxe \/ ~ok(n + 1)
    IN <<m[1] - e, m[2] - e, m[3] + e>>

\* the while loops of find_longest_match that extend the match forwards
ExtendFwd(a2, b2, cb, ahi, bhi, m, wantjunk) ==
    LET maxe == Min2(ahi - (m[1] + m[3]), bhi - (m[2] + m[3]))
        ok(d) == /\ (At(b2, m[2] + m[3] + d) \in cb.bjunk) = wantjunk
                 /\ At(a2, m[1] + m[3] + d) = At(b2, m[2] + m[3] + d)
        e == CHOOSE n \in 0..maxe :
                /\ \A d \in 0..(n - 1) : ok(d)
                /\ n = maxe \/ ~ok(n)
    IN <<m[1], m[2], m[3] + e>>

\* the pairs (i, j) the two loops of find_longest_match visit: j in
\* b2j[a2[i]] with alo <= i < ahi and blo <= j < bhi
Hits(a2, cb, alo, ahi, blo, bhi) ==
    UNION {{<<i, j>> : j \in {j2 \in B2jGet(cb, At(a2, i)) : blo <= j2 /\ j2 < bhi}} :
           i \in alo..(ahi - 1)}

\* the first pair of firsts in the order of the two loops
FirstPair(firsts) ==
    CHOOSE p \in firsts :
        \A q \in firsts : p[1] < q[1] \/ (p[1] = q[1] /\ p[2] <= q[2])

\* besti, bestj, bestsize after the two loops; lens is newj2len of every
\* hit. k > bestsize is strict: the first pair, in the order of the two
\* loops, whose run reaches the greatest length sets the result
RunEndingAt(first, bestsize) ==
    <<first[1] - bestsize + 1, first[2] - bestsize + 1, bestsize>>

BestRun(hits, lens, bestsize) ==
    RunEndingAt(FirstPair({p \in hits : lens[p] = bestsize}), bestsize)

MaxOf(sizes) == CHOOSE k \in sizes : \A k2 \in sizes : k2 <= k

LongestRunIn(hits, lens) == BestRun(hits, lens, MaxOf({lens[p] : p \in hits}))

LongestRun(hits, alo, blo) ==
    IF hits = {} THEN <<alo, blo, 0>>
    ELSE LongestRunIn(hits, [p \in hits |-> j2len(hits, p[1], p[2])])

\* difflib.SequenceMatcher.find_longest_match(alo, ahi, blo, bhi)
find_longest_match(a2, b2, cb, alo, ahi, blo, bhi) ==
    ExtendFwd(a2, b2, cb, ahi, bhi,
        ExtendBack(a2, b2, cb, alo, blo,
            ExtendFwd(a2, b2, cb, ahi, bhi,
                ExtendBack(a2, b2, cb, alo, blo,
                    LongestRun(Hits(a2, cb, alo, ahi, blo, bhi), alo, blo),
                    FALSE),
                FALSE),
            TRUE),
        TRUE)

\* the queue loop of get_matching_blocks followed by matching_blocks.sort():
\* the blocks left of a match all sort before it, those right of it after
RECURSIVE MatchQueue(_, _, _, _, _, _, _)

\* one pass of the queue loop, x = (i, j, k) the longest match of the range
QueueStep(a2, b2, cb, alo, ahi, blo, bhi, x) ==
    IF x[3] = 0 THEN <<>>
    ELSE (IF alo < x[1] /\ blo < x[2]
          THEN MatchQueue(a2, b2, cb, alo, x[1], blo, x[2]) ELSE <<>>)
         \o <<x>>
         \o (IF x[1] + x[3] < ahi /\ x[2] + x[3] < bhi
             THEN MatchQueue(a2, b2, cb, x[1] + x[3], ahi, x[2] + x[3], bhi)
             ELSE <<>>)

MatchQueue(a2, b2, cb, alo, ahi, blo, bhi) ==
    QueueStep(a2, b2, cb, alo, ahi, blo, bhi,
              find_longest_match(a2, b2, cb, alo, ahi, blo, bhi))

\* the loop of get_matching_blocks that collapses adjacent blocks;
\* cur is (i1, j1, k1)
RECURSIVE NonAdjacent(_, _, _)
NonAdjacent(blocks, n, cur) ==
    IF n > Len(blocks)
    THEN IF cur[3] # 0 THEN <<cur>> ELSE <<>>
    ELSE LET nb == blocks[n] IN
         IF cur[1] + cur[3] = nb[1] /\ cur[2] + cur[3] = nb[2]
         THEN NonAdjacent(blocks, n + 1, <<cur[1], cur[2], cur[3] + nb[3]>>)
         ELSE (IF cur[3] # 0 THEN <<cur>> ELSE <<>>)
              \o NonAdjacent(blocks, n + 1, nb)

\* difflib.SequenceMatcher.get_matching_blocks()
get_matching_blocks(a2, b2, isjunk, autojunk) ==
    LET cb == chain_b(b2, isjunk, autojunk)
        blocks == MatchQueue(a2, b2, cb, 0, Len(a2), 0, Len(b2))
    IN NonAdjacent(blocks, 1, <<0, 0, 0>>) \o <<<<Len(a2), Len(b2), 0>>>>

----------------------------------------------------------------------------
(* The line cruncher of _refine_replace_block:                             *)
(* difflib.SequenceMatcher(isjunk=difflib.IS_CHARACTER_JUNK), seq1 = x,    *)
(* seq2 = y. A ratio is the pair <<numerator, denominator>> of the float   *)
(* the code computes; the ratios compared here have denominators under 200 *)
(* and are therefore never within rounding distance of 0.735 or 0.75,      *)
(* except 12/16, which is 0.75 as a float too.                             *)

\* difflib._calculate_ratio(matches, length)
calculate_ratio(matches, length) ==
    IF length # 0 THEN <<2 * matches, length>> ELSE <<1, 1>>

\* SequenceMatcher.ratio()
ratio(x, y) ==
    calculate_ratio(
        SumSizes(get_matching_blocks(x, y, IS_CHARACTER_JUNK, TRUE), 1),
        Len(x) + Len(y))

\* SequenceMatcher.quick_ratio(): the size of the multiset intersection
RECURSIVE QuickMatches(_, _, _)
QuickMatches(x, y, k) ==
    IF k > Len(x) THEN 0
    ELSE (IF Count(SubSeq(x, 1, k), x[k]) <= Count(y, x[k]) THEN 1 ELSE 0)
         + QuickMatches(x, y, k + 1)

quick_ratio(x, y) == calculate_ratio(QuickMatches(x, y, 1), Len(x) + Len(y))

\* SequenceMatcher.real_quick_ratio()
real_quick_ratio(x, y) ==
    calculate_ratio(Min2(Len(x), Len(y)), Len(x) + Len(y))

RatLE(p, q) == p[1] * q[2] <= q[1] * p[2]
RatLT(p, q) == p[1] * q[2] < q[1] * p[2]

----------------------------------------------------------------------------
(* The lines the library part draws its sequences from. "ab" is close to   *)
(* "abc" and to "a b" (ratio 4/5); "abc" is close neither to "a b" (ratio  *)
(* 4/6) nor to "c" (ratio 2/4); "a b" holds a junk character of the line   *)
(* cruncher.                                                               *)

LineAB == <<"a", "b">>
LineABC == <<"a", "b", "c">>
LineA_B == <<"a", " ", "b">>
LineC == <<"c">>

LineSet == {LineAB, LineABC, LineA_B}

\* lines at the cutoff: "abcdefghi" and "abcdefw" have the ratio 12/16 =
\* REFINE_CUTOFF, "abcdefghi" and "abcdefgxyz" the ratio 14/19, between the
\* initial best_ratio and REFINE_CUTOFF, "abcdefw" and "abcdefgxyz" the ratio
\* 12/17, under both
LineAtoI == <<"a", "b", "c", "d", "e", "f", "g", "h", "i">>
LineAtoFW == <<"a", "b", "c", "d", "e", "f", "w">>
LineAtoGXYZ == <<"a", "b", "c", "d", "e", "f", "g", "x", "y", "z">>

EdgeLineSet == {LineAtoI, LineAtoFW, LineAtoGXYZ}

\* the lines that recur in the long sequences
FarLineSet == {LineABC, LineC}

AllLines == LineSet \cup FarLineSet \cup EdgeLineSet

\* what the reused line cruncher returns for seq1 = p[1], seq2 = p[2]
CrunchTable ==
    [p \in AllLines \X AllLines |->
        [real_quick |-> real_quick_ratio(p[1], p[2]),
         quick |-> quick_ratio(p[1], p[2]),
         full |-> ratio(p[1], p[2])]]

----------------------------------------------------------------------------
(* my_diff_lib.SequenceMatcher *)

\* REFINE_CUTOFF = 0.75
REFINE_CUTOFF == <<3, 4>>

\* best_ratio = self.REFINE_CUTOFF * 0.98
InitialBestRatio == <<REFINE_CUTOFF[1] * 98, REFINE_CUTOFF[2] * 100>>

\* one pass of the body of the two search loops, at old index i, new index j;
\* s holds best_ratio, best_i, best_j and eq = (eqi, eqj), <<>> for None;
\* same is self.a[i] == self.b[j] and c what the line cruncher returns
SearchPass(s, i, j, same, c) ==
    IF same
    THEN IF s.eq = <<>> THEN [s EXCEPT !.eq = <<i, j>>] ELSE s
    ELSE IF RatLE(c.real_quick, s.best_ratio) THEN s
    ELSE IF RatLE(c.quick, s.best_ratio) THEN s
    ELSE IF RatLT(s.best_ratio, c.full)
         THEN [s EXCEPT !.best_ratio = c.full, !.best_i = i, !.best_j = j]
         ELSE s

SearchStep(a2, b2, s, i, j) ==
    SearchPass(s, i, j, At(a2, i) = At(b2, j), CrunchTable[<<At(a2, i), At(b2, j)>>])

\* for j in range(j1, j2): for i in range(i1, i2): the passes numbered
\* lo .. hi-1, in order, starting from s (split in halves to keep the
\* evaluation shallow; the passes run in the order of the loops)
RECURSIVE Search(_, _, _, _, _, _, _, _)
Search(a2, b2, i1, i2, j1, lo, hi, s) ==
    IF hi <= lo THEN s
    ELSE IF hi = lo + 1
    THEN SearchStep(a2, b2, s, i1 + (lo % (i2 - i1)), j1 + (lo \div (i2 - i1)))
    ELSE Search(a2, b2, i1, i2, j1, (lo + hi) \div 2, hi,
                Search(a2, b2, i1, i2, j1, lo, (lo + hi) \div 2, s))

RECURSIVE refine_replace_block(_, _, _, _, _, _)

\* the yields of _refine_replace_block around the synch point, with the
\* block after the synch point started at best_j instead of best_j + 1
SynchOn_after_off_by_one(a2, b2, i1, i2, j1, j2, best_i, best_j, synch) ==
    refine_replace_block(a2, b2, i1, best_i, j1, best_j)
    \o <<<<synch, best_i, best_i + 1, best_j, best_j + 1>>>>
    \o refine_replace_block(a2, b2, best_i + 1, i2, best_j, j2)

\* the yields of _refine_replace_block around the synch point (best_i,
\* best_j): the block before it, the pair itself, the block after it
SynchOn(a2, b2, i1, i2, j1, j2, best_i, best_j, synch) ==
    refine_replace_block(a2, b2, i1, best_i, j1, best_j)
    \o <<<<synch, best_i, best_i + 1, best_j, best_j + 1>>>>
    \o refine_replace_block(a2, b2, best_i + 1, i2, best_j + 1, j2)

\* the decision of _refine_replace_block with the identical pair left aside
Decide_ignores_identical(a2, b2, i1, i2, j1, j2, s, noclose) ==
    IF noclose
    THEN <<<<REPLACE, i1, i2, j1, j2>>>>
    ELSE SynchOn(a2, b2, i1, i2, j1, j2, s.best_i, s.best_j, REPLACE)

\* the decision of _refine_replace_block with an identical pair taken
\* before a close pair
Decide_prefers_identical(a2, b2, i1, i2, j1, j2, s, noclose) ==
    IF s.eq # <<>>
    THEN SynchOn(a2, b2, i1, i2, j1, j2, s.eq[1], s.eq[2], EQUAL)
    ELSE IF noclose
    THEN <<<<REPLACE, i1, i2, j1, j2>>>>
    ELSE SynchOn(a2, b2, i1, i2, j1, j2, s.best_i, s.best_j, REPLACE)

\* the decision of _refine_replace_block after the search: s is the state
\* the search ends in, noclose is best_ratio < self.REFINE_CUTOFF
Decide(a2, b2, i1, i2, j1, j2, s, noclose) ==
    IF noclose /\ s.eq = <<>>
    THEN <<<<REPLACE, i1, i2, j1, j2>>>>
    ELSE IF noclose
    THEN SynchOn(a2, b2, i1, i2, j1, j2, s.eq[1], s.eq[2], EQUAL)
    ELSE SynchOn(a2, b2, i1, i2, j1, j2, s.best_i, s.best_j, REPLACE)

AfterSearch(a2, b2, i1, i2, j1, j2, s) ==
    Decide(a2, b2, i1, i2, j1, j2, s, RatLT(s.best_ratio, REFINE_CUTOFF))

\* SequenceMatcher._refine_replace_block(i1, i2, j1, j2)
refine_replace_block(a2, b2, i1, i2, j1, j2) ==
    IF i1 >= i2
    THEN IF j1 < j2 THEN <<<<INSERT, i1, i1, j1, j2>>>> ELSE <<>>
    ELSE IF j1 >= j2
    THEN IF i1 < i2 THEN <<<<DELETE, i1, i2, j1, j1>>>> ELSE <<>>
    ELSE AfterSearch(a2, b2, i1, i2, j1, j2,
             Search(a2, b2, i1, i2, j1, 0, (i2 - i1) * (j2 - j1),
                    [best_ratio |-> InitialBestRatio,
                     best_i |-> -1, best_j |-> -1, eq |-> <<>>]))

\* generate_opcodes without the test of size before the Equal is yielded
RECURSIVE OpcodeLoop_yields_empty_equal(_, _, _, _, _, _, _)
OpcodeLoop_yields_empty_equal(a2, b2, blocks, refine, n, i, j) ==
    IF n > Len(blocks) THEN <<>>
    ELSE
      LET ai == blocks[n][1]
          bj == blocks[n][2]
          size == blocks[n][3]
          tag == IF i < ai /\ j < bj THEN REPLACE
                 ELSE IF i < ai THEN DELETE
                 ELSE IF j < bj THEN INSERT
                 ELSE COUNT
      IN (IF refine /\ tag = REPLACE
          THEN refine_replace_block(a2, b2, i, ai, j, bj)
          ELSE IF tag # COUNT THEN <<<<tag, i, ai, j, bj>>>>
          ELSE <<>>)
         \o <<<<EQUAL, ai, ai + size, bj, bj + size>>>>
         \o OpcodeLoop_yields_empty_equal(a2, b2, blocks, refine, n + 1,
                                          ai + size, bj + size)

\* generate_opcodes with j advanced to bj instead of bj + size
RECURSIVE OpcodeLoop_j_not_advanced(_, _, _, _, _, _, _)
OpcodeLoop_j_not_advanced(a2, b2, blocks, refine, n, i, j) ==
    IF n > Len(blocks) THEN <<>>
    ELSE
      LET ai == blocks[n][1]
          bj == blocks[n][2]
          size == blocks[n][3]
          tag == IF i < ai /\ j < bj THEN REPLACE
                 ELSE IF i < ai THEN DELETE
                 ELSE IF j < bj THEN INSERT
                 ELSE COUNT
      IN (IF refine /\ tag = REPLACE
          THEN refine_replace_block(a2, b2, i, ai, j, bj)
          ELSE IF tag # COUNT THEN <<<<tag, i, ai, j, bj>>>>
          ELSE <<>>)
         \o (IF size # 0 THEN <<<<EQUAL, ai, ai + size, bj, bj + size>>>> ELSE <<>>)
         \o OpcodeLoop_j_not_advanced(a2, b2, blocks, refine, n + 1, ai + size, bj)

\* generate_opcodes with the tags of the one-sided gaps exchanged
RECURSIVE OpcodeLoop_tags_swapped(_, _, _, _, _, _, _)
OpcodeLoop_tags_swapped(a2, b2, blocks, refine, n, i, j) ==
    IF n > Len(blocks) THEN <<>>
    ELSE
      LET ai == blocks[n][1]
          bj == blocks[n][2]
          size == blocks[n][3]
          tag == IF i < ai /\ j < bj THEN REPLACE
                 ELSE IF i < ai THEN INSERT
                 ELSE IF j < bj THEN DELETE
                 ELSE COUNT
      IN (IF refine /\ tag = REPLACE
          THEN refine_replace_block(a2, b2, i, ai, j, bj)
          ELSE IF tag # COUNT THEN <<<<tag, i, ai, j, bj>>>>
          ELSE <<>>)
         \o (IF size # 0 THEN <<<<EQUAL, ai, ai + size, bj, bj + size>>>> ELSE <<>>)
         \o OpcodeLoop_tags_swapped(a2, b2, blocks, refine, n + 1, ai + size, bj + size)

\* generate_opcodes yielding Equal only for blocks longer than one line
RECURSIVE OpcodeLoop_drops_single_equal(_, _, _, _, _, _, _)
OpcodeLoop_drops_single_equal(a2, b2, blocks, refine, n, i, j) ==
    IF n > Len(blocks) THEN <<>>
    ELSE
      LET ai == blocks[n][1]
          bj == blocks[n][2]
          size == blocks[n][3]
          tag == IF i < ai /\ j < bj THEN REPLACE
                 ELSE IF i < ai THEN DELETE
                 ELSE IF j < bj THEN INSERT
                 ELSE COUNT
      IN (IF refine /\ tag = REPLACE
          THEN refine_replace_block(a2, b2, i, ai, j, bj)
          ELSE IF tag # COUNT THEN <<<<tag, i, ai, j, bj>>>>
          ELSE <<>>)
         \o (IF size > 1 THEN <<<<EQUAL, ai, ai + size, bj, bj + size>>>> ELSE <<>>)
         \o OpcodeLoop_drops_single_equal(a2, b2, blocks, refine, n + 1, ai + size, bj + size)

\* generate_opcodes refining every Replace block, whatever refine is
RECURSIVE OpcodeLoop_always_refines(_, _, _, _, _, _, _)
OpcodeLoop_always_refines(a2, b2, blocks, refine, n, i, j) ==
    IF n > Len(blocks) THEN <<>>
    ELSE
      LET ai == blocks[n][1]
          bj == blocks[n][2]
          size == blocks[n][3]
          tag == IF i < ai /\ j < bj THEN REPLACE
                 ELSE IF i < ai THEN DELETE
                 ELSE IF j < bj THEN INSERT
                 ELSE COUNT
      IN (IF tag = REPLACE
          THEN refine_replace_block(a2, b2, i, ai, j, bj)
          ELSE IF tag # COUNT THEN <<<<tag, i, ai, j, bj>>>>
          ELSE <<>>)
         \o (IF size # 0 THEN <<<<EQUAL, ai, ai + size, bj, bj + size>>>> ELSE <<>>)
         \o OpcodeLoop_always_refines(a2, b2, blocks, refine, n + 1, ai + size, bj + size)

\* the loop of generate_opcodes from the n-th matching block on, with the
\* loop variables i and j
RECURSIVE OpcodeLoop(_, _, _, _, _, _, _)
OpcodeLoop(a2, b2, blocks, refine, n, i, j) ==
    IF n > Len(blocks) THEN <<>>
    ELSE
      LET ai == blocks[n][1]
          bj == blocks[n][2]
          size == blocks[n][3]
          tag == IF i < ai /\ j < bj THEN REPLACE
                 ELSE IF i < ai THEN DELETE
                 ELSE IF j < bj THEN INSERT
                 ELSE COUNT
      IN (IF refine /\ tag = REPLACE
          THEN refine_replace_block(a2, b2, i, ai, j, bj)
          ELSE IF tag # COUNT THEN <<<<tag, i, ai, j, bj>>>>
          ELSE <<>>)
         \o (IF size # 0 THEN <<<<EQUAL, ai, ai + size, bj, bj + size>>>> ELSE <<>>)
         \o OpcodeLoop(a2, b2, blocks, refine, n + 1, ai + size, bj + size)

\* SequenceMatcher.generate_opcodes(refine) of SequenceMatcher(a=a2, b=b2):
\* isjunk is None and autojunk keeps its default, True
generate_opcodes(a2, b2, refine) ==
    OpcodeLoop(a2, b2, get_matching_blocks(a2, b2, {}, TRUE), refine, 1, 0, 0)

----------------------------------------------------------------------------
(* Texts. A string is a sequence of tokens: NL is the character "\n",      *)
(* Txt(c) a non-empty run of characters without a line break, and          *)
(* PlaceholderText(k) the run "[k lines hidden, click to expand]".         *)
(* A line, as str.splitlines(keepends=True) returns it, is a string that   *)
(* holds at most one NL, at its end.                                       *)

NL == <<"nl">>
Txt(c) == <<"txt", c>>
PlaceholderText(k) == <<"hidden", k>>

\* the lines of s from position k on, the line in progress starting at start
RECURSIVE SplitLoop(_, _, _)
SplitLoop(s, k, start) ==
    IF k > Len(s)
    THEN IF start > Len(s) THEN <<>> ELSE <<SubSeq(s, start, Len(s))>>
    ELSE IF s[k] = NL
         THEN <<SubSeq(s, start, k)>> \o SplitLoop(s, k + 1, k + 1)
         ELSE SplitLoop(s, k + 1, start)

\* str.splitlines(keepends=True), for texts whose only line break is "\n"
splitlines(s) == SplitLoop(s, 1, 1)

\* "".join(parts)
RECURSIVE JoinFrom(_, _)
JoinFrom(parts, n) ==
    IF n > Len(parts) THEN <<>> ELSE parts[n] \o JoinFrom(parts, n + 1)

join(parts) == JoinFrom(parts, 1)

----------------------------------------------------------------------------
(* QTextDocument as the editor uses it: a non-empty sequence of blocks,    *)
(* each with its text (no line break) and its userState (-1 when unset).   *)

Block(text, state) == [text |-> text, userState |-> state]

\* the blocks a text makes: one per line break, and one for what follows
\* the last line break
RECURSIVE BlockLoop(_, _, _)
BlockLoop(s, k, start) ==
    IF k > Len(s)
    THEN <<Block(SubSeq(s, start, Len(s)), -1)>>
    ELSE IF s[k] = NL
         THEN <<Block(SubSeq(s, start, k - 1), -1)>> \o BlockLoop(s, k + 1, k + 1)
         ELSE BlockLoop(s, k + 1, start)

TextBlocks(s) == BlockLoop(s, 1, 1)

\* QPlainTextEdit.setPlainText(s)
setPlainText(s) == TextBlocks(s)

\* QPlainTextEdit.toPlainText()
RECURSIVE PlainTextFrom(_, _)
PlainTextFrom(doc, n) ==
    IF n = Len(doc) THEN doc[n].text
    ELSE doc[n].text \o <<NL>> \o PlainTextFrom(doc, n + 1)

toPlainText(doc) == PlainTextFrom(doc, 1)

\* doc.findBlockByLineNumber(n).isValid(); the editor does not wrap lines,
\* so that a block is one line
BlockIsValid(doc, n) == 0 <= n /\ n < Len(doc)

\* doc.findBlockByLineNumber(n).setUserState(state), when the block is valid
setUserState(doc, n, state) ==
    IF BlockIsValid(doc, n) THEN [doc EXCEPT ![n + 1].userState = state] ELSE doc

\* cursor.insertText(s) with the cursor at the start of block n (0-based):
\* the text before the first line break joins the head of the block, which
\* keeps the block's userState; every line break starts a new block
insertText(doc, n, s) ==
    IF s = <<>> THEN doc
    ELSE LET new == TextBlocks(s)
             m == Len(new)
             cur == At(doc, n)
         IN Slice(doc, 0, n)
            \o [k \in 1..m |->
                  Block(IF k = m THEN new[k].text \o cur.text ELSE new[k].text,
                        IF k = 1 THEN cur.userState ELSE -1)]
            \o Slice(doc, n + 1, Len(doc))

\* cursor.removeSelectedText() with block n selected from StartOfBlock to
\* EndOfBlock plus NextCharacter: the block's text and the line break after
\* it go, and what is left at n is the next block with its own userState;
\* the last block has no line break after it and only loses its text
removeBlock(doc, n) ==
    IF n + 1 < Len(doc)
    THEN Slice(doc, 0, n) \o Slice(doc, n + 1, Len(doc))
    ELSE [doc EXCEPT ![n + 1].text = <<>>]

----------------------------------------------------------------------------
(* DiffEditor, main.py *)

COLLAPSE_THRESHOLD_LINES == 5
COLLAPSE_CONTEXT_LINES == 3

\* the loop of difflib.SequenceMatcher.get_opcodes() from the n-th matching
\* block on
RECURSIVE GetOpcodesLoop(_, _, _, _)
GetOpcodesLoop(blocks, n, i, j) ==
    IF n > Len(blocks) THEN <<>>
    ELSE
      LET ai == blocks[n][1]
          bj == blocks[n][2]
          size == blocks[n][3]
          tag == IF i < ai /\ j < bj THEN "replace"
                 ELSE IF i < ai THEN "delete"
                 ELSE IF j < bj THEN "insert"
                 ELSE ""
      IN (IF tag # "" THEN <<<<tag, i, ai, j, bj>>>> ELSE <<>>)
         \o (IF size # 0 THEN <<<<"equal", ai, ai + size, bj, bj + size>>>> ELSE <<>>)
         \o GetOpcodesLoop(blocks, n + 1, ai + size, bj + size)

\* SequenceMatcher(None, a2, b2, autojunk=False).get_opcodes()
get_opcodes(a2, b2) ==
    GetOpcodesLoop(get_matching_blocks(a2, b2, {}, FALSE), 1, 0, 0)

\* the condition under which set_diff_text collapses an opcode
Collapses_ge_threshold(op) ==
    op[1] = "equal" /\ op[3] - op[2] >= COLLAPSE_THRESHOLD_LINES

Collapses(op) ==
    op[1] = "equal" /\ op[3] - op[2] > COLLAPSE_THRESHOLD_LINES

\* one pass of the loop of set_diff_text over the opcode op; st holds
\* collapsed_sections, displayed_old_parts, displayed_new_parts, the two
\* lists of placeholders_to_set, old_line_num and new_line_num
CollapseStep(orig_old, orig_new, st, op) ==
    LET i1 == op[2]
        i2 == op[3]
        j1 == op[4]
        j2 == op[5]
        ctx == COLLAPSE_CONTEXT_LINES
        num_hidden_lines == (i2 - i1) - 2 * ctx
        collapse_index == Len(st.sections)
    IN IF Collapses(op)
       THEN [sections |-> Append(st.sections, Slice(orig_old, i1 + ctx, i2 - ctx)),
             old_parts |-> st.old_parts
                           \o Slice(orig_old, i1, i1 + ctx)
                           \o <<<<PlaceholderText(num_hidden_lines), NL>>>>
                           \o Slice(orig_old, i2 - ctx, i2),
             new_parts |-> st.new_parts
                           \o Slice(orig_new, j1, j1 + ctx)
                           \o <<<<PlaceholderText(num_hidden_lines), NL>>>>
                           \o Slice(orig_new, j2 - ctx, j2),
             old_ph |-> Append(st.old_ph, <<st.old_line_num + ctx, collapse_index>>),
             new_ph |-> Append(st.new_ph, <<st.new_line_num + ctx, collapse_index>>),
             old_line_num |-> st.old_line_num + 2 * ctx + 1,
             new_line_num |-> st.new_line_num + 2 * ctx + 1]
       ELSE [st EXCEPT !.old_parts = @ \o Slice(orig_old, i1, i2),
                       !.new_parts = @ \o Slice(orig_new, j1, j2),
                       !.old_line_num = @ + (i2 - i1),
                       !.new_line_num = @ + (j2 - j1)]

\* the loop of set_diff_text over the first n opcodes
RECURSIVE CollapseLoop(_, _, _, _)
CollapseLoop(orig_old, orig_new, ops, n) ==
    IF n = 0
    THEN [sections |-> <<>>, old_parts |-> <<>>, new_parts |-> <<>>,
          old_ph |-> <<>>, new_ph |-> <<>>, old_line_num |-> 0, new_line_num |-> 0]
    ELSE CollapseStep(orig_old, orig_new,
                      CollapseLoop(orig_old, orig_new, ops, n - 1), ops[n])

\* the loop of set_diff_text that sets the userState of the placeholder
\* blocks: block line_num gets collapse_index + 1
RECURSIVE SetPlaceholders(_, _, _)
SetPlaceholders(doc, placeholders, n) ==
    IF n = 0 THEN doc
    ELSE setUserState(SetPlaceholders(doc, placeholders, n - 1),
                      placeholders[n][1], placeholders[n][2] + 1)

\* setText and the userState loop of set_diff_text on one editor
ShowParts(parts, placeholders) ==
    SetPlaceholders(setPlainText(join(parts)), placeholders, Len(placeholders))

\* set_diff_text after its loop over the opcodes, st the state of the loop
AfterCollapse(orig_old, orig_new, st) ==
    [original_old |-> orig_old, original_new |-> orig_new,
     collapsed_sections |-> st.sections,
     old_doc |-> ShowParts(st.old_parts, st.old_ph),
     new_doc |-> ShowParts(st.new_parts, st.new_ph)]

\* set_diff_text from its loop on, ops being matcher.get_opcodes()
CollapseAll(orig_old, orig_new, ops) ==
    AfterCollapse(orig_old, orig_new, CollapseLoop(orig_old, orig_new, ops, Len(ops)))

\* set_diff_text once original_old and original_new are set
DiffLines(orig_old, orig_new) ==
    CollapseAll(orig_old, orig_new, get_opcodes(orig_old, orig_new))

\* what set_diff_text(old, new, lexer) leaves in the editor
set_diff_text(old, new) == DiffLines(splitlines(old), splitlines(new))

\* update_diff(): the highlights are recomputed from the two plain texts
update_diff(odoc, ndoc) == <<toPlainText(odoc), toPlainText(ndoc)>>

\* the first loop of _expand_section without cursor.removeSelectedText()
ExpandInDoc_keeps_placeholder(doc, index, text_to_insert) ==
    LET found == {n \in 0..(Len(doc) - 1) : At(doc, n).userState = index + 1} IN
    IF found = {} THEN doc
    ELSE LET n == CHOOSE x \in found : \A y \in found : x <= y
         IN insertText(doc, n, text_to_insert)

\* the first loop of _expand_section on one editor: the first block whose
\* userState is index + 1, if any, is replaced by text_to_insert
ExpandInDoc(doc, index, text_to_insert) ==
    LET found == {n \in 0..(Len(doc) - 1) : At(doc, n).userState = index + 1} IN
    IF found = {} THEN doc
    ELSE LET n == CHOOSE x \in found : \A y \in found : x <= y
         IN insertText(removeBlock(doc, n), n, text_to_insert)

\* the second loop of _expand_section on one editor
RenumberNoDecrement(doc, index) == doc

Renumber(doc, index) ==
    [n \in 1..Len(doc) |->
        IF doc[n].userState > index + 1
        THEN [doc[n] EXCEPT !.userState = @ - 1] ELSE doc[n]]

\* _expand_section without the del of the expanded section
DelSection_keeps_section(sections, index) == sections

\* del self.collapsed_sections[index]
DelSection(sections, index) ==
    Slice(sections, 0, index) \o Slice(sections, index + 1, Len(sections))

\* the step of _build_cache with a placeholder counted as one line
NextLineNumber_placeholder_is_one_line(block, sections, original_line_number) ==
    original_line_number + 1

\* the body of the loop of LineNumbers._build_cache after the cache entry
\* is written: the original line number of the next block
NextLineNumber(block, sections, original_line_number) ==
    LET state == block.userState
        collapse_index == state - 1
    IN IF state > 0
       THEN IF 0 <= collapse_index /\ collapse_index < Len(sections)
            THEN original_line_number + Len(At(sections, collapse_index))
            ELSE original_line_number
       ELSE original_line_number + 1

\* the loop of _build_cache from block n (1-based here) on
RECURSIVE BuildCacheLoop(_, _, _, _)
BuildCacheLoop(doc, sections, n, original_line_number) ==
    IF n > Len(doc) THEN <<>>
    ELSE <<original_line_number>>
         \o BuildCacheLoop(doc, sections, n + 1,
                           NextLineNumber(doc[n], sections, original_line_number))

\* LineNumbers._build_cache(): _line_number_cache, the entry of
\* blockNumber n at position n + 1; line_numbers.collapsed_sections is the
\* list object DiffEditor.collapsed_sections
build_cache(doc, sections) == BuildCacheLoop(doc, sections, 1, 1)

\* the guard of expand_section without its upper bound
InRange_no_upper_bound(index, n) == 0 <= index

\* the guard of expand_section: 0 <= index < len(self.collapsed_sections)
InRange(index, n) == 0 <= index /\ index < n

\* the position a Python list of n items reads for the subscript index, and
\* the subscripts for which it raises IndexError
PyIndex(index, n) == IF index < 0 THEN index + n ELSE index

RaisesIndexError(index, n) == index >= n \/ index < -n

\* what the slot expand_section did with an index
NoClick == [index |-> 0, outcome |-> "none"]
Click(index, outcome) == [index |-> index, outcome |-> outcome]

----------------------------------------------------------------------------
(* The library part as a state machine: a SequenceMatcher is constructed   *)
(* over two line sequences and one generator of it is run to its end.      *)

\* new sequences long enough for __chain_b to apply autojunk: a prefix q,
\* the line "ab" once, then the lines of FarLineSet in turn up to
\* AutojunkMinLen lines, so that each of them is popular
LongTail(n) ==
    [k \in 1..n |-> IF k % 2 = 0 THEN LineABC ELSE LineC]

LongNew(q) == q \o <<LineAB>> \o LongTail(AutojunkMinLen - Len(q) - 1)

LongOld(p) == p \o <<LineAB>>

FarSeqs == SeqsUpTo(FarLineSet, MaxLen)

ShortSeqs == SeqsUpTo(LineSet, MaxLen)

EdgeSeqs == SeqsUpTo(EdgeLineSet, MaxRefineLen)

NoCall == [op |-> "none", refine |-> FALSE, i1 |-> 0, i2 |-> 0, j1 |-> 0, j2 |-> 0]

\* the update timer is not followed
NoBurst == [edits |-> 0, updates |-> 0]

NoTimer == update_timer = <<>> /\ since_edit = 0 /\ burst = NoBurst

\* no call of update_diff is followed through its loop
NoLoop == [pc |-> "idle", i |-> 0, old_cursor |-> 0, new_cursor |-> 0,
           old_highlights |-> <<>>, new_highlights |-> <<>>]

NoUpdate == opcodes = <<>> /\ update = NoLoop

\* no DiffEditor exists
NoEditor ==
    /\ old_text = <<>> /\ new_text = <<>>
    /\ phase = "none"
    /\ original_old = <<>> /\ original_new = <<>>
    /\ collapsed_sections = <<>>
    /\ old_doc = <<>> /\ new_doc = <<>>
    /\ highlight_src = <<>>
    /\ clicked = NoClick
    /\ NoTimer
    /\ NoUpdate

\* no SequenceMatcher of my_diff_lib exists
NoMatcher == a = <<>> /\ b = <<>> /\ call = NoCall /\ out = <<>>

Init ==
    /\ NoEditor
    /\ \/ a \in ShortSeqs /\ b \in ShortSeqs
       \/ a \in EdgeSeqs /\ b \in EdgeSeqs
       \/ \E p \in FarSeqs, q \in FarSeqs : a = LongOld(p) /\ b = LongNew(q)
       \/ \E q \in FarSeqs : a = LongNew(q) /\ b = LongNew(q)
    /\ call = NoCall
    /\ out = <<>>

\* list(matcher.generate_opcodes(refine))
GenerateOpcodes(refine) ==
    /\ call.op = "none"
    /\ call' = [NoCall EXCEPT !.op = "generate_opcodes", !.refine = refine]
    /\ out' = generate_opcodes(a, b, refine)
    /\ UNCHANGED <<a, b>>
    /\ UNCHANGED edvars
    /\ UNCHANGED updvars

\* list(matcher._refine_replace_block(i1, i2, j1, j2))
RefineReplaceBlock(i1, i2, j1, j2) ==
    /\ call.op = "none"
    /\ call' = [op |-> "refine_replace_block", refine |-> TRUE,
                i1 |-> i1, i2 |-> i2, j1 |-> j1, j2 |-> j2]
    /\ out' = refine_replace_block(a, b, i1, i2, j1, j2)
    /\ UNCHANGED <<a, b>>
    /\ UNCHANGED edvars
    /\ UNCHANGED updvars

Next ==
    \/ \E refine \in BOOLEAN : GenerateOpcodes(refine)
    \* the refiner is called directly on the shortest sequences only
    \/ /\ Len(a) <= MaxRefineLen /\ Len(b) <= MaxRefineLen
       /\ \E i1 \in 0..Len(a), j1 \in 0..Len(b) :
            \E i2 \in i1..Len(a), j2 \in j1..Len(b) :
                RefineReplaceBlock(i1, i2, j1, j2)

Spec == Init /\ [][Next]_vars

----------------------------------------------------------------------------
(* The editor as a state machine: main() holds two texts, MainWindow       *)
(* constructs a DiffEditor and calls set_diff_text on it once; after       *)
(* that the placeholders are clicked, in any order. The update timer,      *)
(* which changes neither the documents nor the table, is followed in       *)
(* SpecTimer.                                                              *)

EditKinds == {"keep", "replace", "delete", "insert"}

\* the line with text number id, or with the one text all lines share
EdLine(id, same) == <<Txt(IF same THEN 1 ELSE id), NL>>

RunLines(lo, n, same) == [k \in 1..n |-> EdLine(lo + k - 1, same)]

\* an edit site on the old side and on the new side: the line is kept,
\* replaced by another text, deleted, or an empty line is inserted
SiteOld(kind, id, same) ==
    IF kind = "insert" THEN <<>> ELSE <<EdLine(id, same)>>

SiteNew(kind, id, same) ==
    IF kind = "keep" THEN <<EdLine(id, same)>>
    ELSE IF kind = "replace" THEN <<<<Txt(0), NL>>>>
    ELSE IF kind = "delete" THEN <<>>
    ELSE <<<<NL>>>>

\* three runs of unchanged lines with an edit site between each two
OldLines(r, e, same) ==
    RunLines(1, r[1], same) \o SiteOld(e[1], r[1] + 1, same)
    \o RunLines(r[1] + 2, r[2], same) \o SiteOld(e[2], r[1] + r[2] + 2, same)
    \o RunLines(r[1] + r[2] + 3, r[3], same)

NewLines(r, e, same) ==
    RunLines(1, r[1], same) \o SiteNew(e[1], r[1] + 1, same)
    \o RunLines(r[1] + 2, r[2], same) \o SiteNew(e[2], r[1] + r[2] + 2, same)
    \o RunLines(r[1] + r[2] + 3, r[3], same)

\* the text of the lines, with or without the line break of the last line
TextOf(lines, final_newline) ==
    LET t == join(lines) IN
    IF final_newline \/ t = <<>> THEN t ELSE SubSeq(t, 1, Len(t) - 1)

\* the lengths of a run of unchanged lines: none, and from the threshold up
RunLens == {0} \cup (COLLAPSE_THRESHOLD_LINES..MaxRun)

\* the texts main() is given: lines that all differ, with and without the
\* line break of the last line, and lines that all share one text
OldText(r, e, same, final_newline) == TextOf(OldLines(r, e, same), final_newline)

NewText(r, e, same, final_newline) == TextOf(NewLines(r, e, same), final_newline)

\* DiffEditor.__init__ ends with self.set_diff_text("", "", TextLexer())
InitEditor ==
    /\ NoMatcher
    /\ \E r \in [1..3 -> RunLens], e \in [1..2 -> EditKinds] :
          \/ \E nlo \in BOOLEAN, nln \in BOOLEAN :
                /\ old_text = OldText(r, e, FALSE, nlo)
                /\ new_text = NewText(r, e, FALSE, nln)
          \/ /\ old_text = OldText(r, e, TRUE, TRUE)
             /\ new_text = NewText(r, e, TRUE, TRUE)
    /\ phase = "constructed"
    /\ \E r \in {set_diff_text(<<>>, <<>>)} :
        /\ original_old = r.original_old
        /\ original_new = r.original_new
        /\ collapsed_sections = r.collapsed_sections
        /\ old_doc = r.old_doc
        /\ new_doc = r.new_doc
        /\ highlight_src = update_diff(r.old_doc, r.new_doc)
    /\ clicked = NoClick
    /\ NoTimer
    /\ NoUpdate

\* MainWindow.__init__: diff_editor.set_diff_text(old_text, new_text, lexer)
SetDiffText ==
    /\ phase = "constructed"
    /\ phase' = "shown"
    /\ \E r \in {set_diff_text(old_text, new_text)} :
        /\ original_old' = r.original_old
        /\ original_new' = r.original_new
        /\ collapsed_sections' = r.collapsed_sections
        /\ old_doc' = r.old_doc
        /\ new_doc' = r.new_doc
        /\ highlight_src' = update_diff(r.old_doc, r.new_doc)
    /\ UNCHANGED <<old_text, new_text, clicked>>
    /\ UNCHANGED libvars
    /\ UNCHANGED updvars

\* _expand_section(index) on one editor: the placeholder block goes, the
\* hidden text comes, the later placeholders are renumbered
expand_in_editor(doc, index, text_to_insert) ==
    Renumber(ExpandInDoc(doc, index, text_to_insert), index)

\* DiffEditor.expand_section(index), the slot of placeholderClicked, with
\* _expand_section(index) when the guard lets the index through; there
\* self.collapsed_sections[index] is read first and raises IndexError
\* before anything is changed when the list has no such item
ExpandSection(index) ==
    /\ phase = "shown"
    /\ IF InRange(index, Len(collapsed_sections))
       THEN IF RaisesIndexError(index, Len(collapsed_sections))
            THEN /\ clicked' = Click(index, "IndexError")
                 /\ UNCHANGED <<collapsed_sections, old_doc, new_doc, highlight_src>>
            ELSE \E at \in {PyIndex(index, Len(collapsed_sections))} :
                 \E text_to_insert \in {join(At(collapsed_sections, at))} :
                 \E odoc \in {expand_in_editor(old_doc, index, text_to_insert)} :
                 \E ndoc \in {expand_in_editor(new_doc, index, text_to_insert)} :
                    /\ collapsed_sections' = DelSection(collapsed_sections, at)
                    /\ old_doc' = odoc
                    /\ new_doc' = ndoc
                    /\ highlight_src' = update_diff(odoc, ndoc)
                    /\ clicked' = Click(index, "expanded")
       ELSE /\ clicked' = Click(index, "ignored")
            /\ UNCHANGED <<collapsed_sections, old_doc, new_doc, highlight_src>>
    /\ UNCHANGED <<old_text, new_text, phase, original_old, original_new>>
    /\ UNCHANGED libvars
    /\ UNCHANGED updvars

NextEditor ==
    \/ SetDiffText
    \/ \E index \in -1..Len(collapsed_sections) : ExpandSection(index)

SpecEditor == InitEditor /\ [][NextEditor]_vars

----------------------------------------------------------------------------
(* The update timer as a state machine: MainWindow has called              *)
(* set_diff_text on two short texts, the user types into the new editor,   *)
(* time passes and the event loop delivers the timeouts of update_timer.   *)
(* A timeout that is due is delivered before time passes and before the    *)
(* next key press. In the texts of this part a Txt is one character.       *)

UPDATE_DELAY_MS == 300

\* the steps in which time passes
TimeSteps == {50, 100, UPDATE_DELAY_MS}

\* update_timer.start() that leaves a running timer alone
timer_start_keeps_running_timer(timers) ==
    IF timers = <<>> THEN <<UPDATE_DELAY_MS>> ELSE timers

\* update_timer.start(), the slot of new.editor.textChanged: QTimer.start
\* stops the timer if it is running and starts it with its interval
timer_start(timers) == <<UPDATE_DELAY_MS>>

\* a timeout of update_timer is due
Due == \E k \in 1..Len(update_timer) : update_timer[k] = 0

\* the keys the user types, and the texts the editor is given at first
Typed == {Txt(1), NL}

TimerTexts == {<<>>, <<Txt(1), NL>>}

\* the document after a character is typed at its start, and after the
\* character at its start is deleted
TypeAtStart(doc, c) == insertText(doc, 0, <<c>>)

DeleteAtStart(doc) ==
    IF doc[1].text # <<>> THEN [doc EXCEPT ![1].text = Tail(@)]
    ELSE IF Len(doc) > 1 THEN Tail(doc) ELSE doc

KeyEdits(doc) == {TypeAtStart(doc, c) : c \in Typed} \cup {DeleteAtStart(doc)}

\* the burst after one more textChanged
NextBurst(bu, gap) ==
    IF bu.edits > 0 /\ gap < UPDATE_DELAY_MS
    THEN [bu EXCEPT !.edits = Min2(@ + 1, MaxEdits)]
    ELSE [edits |-> 1, updates |-> 0]

\* the editor after DiffEditor.__init__ and MainWindow.__init__: each
\* setText of the new editor emitted textChanged, the second started the
\* timer again
InitTimer ==
    /\ NoMatcher
    /\ old_text \in TimerTexts
    /\ new_text \in TimerTexts
    /\ phase = "shown"
    /\ \E r \in {set_diff_text(old_text, new_text)} :
        /\ original_old = r.original_old
        /\ original_new = r.original_new
        /\ collapsed_sections = r.collapsed_sections
        /\ old_doc = r.old_doc
        /\ new_doc = r.new_doc
        /\ highlight_src = update_diff(r.old_doc, r.new_doc)
    /\ clicked = NoClick
    /\ update_timer = timer_start(timer_start(<<>>))
    /\ since_edit = 0
    /\ burst = NextBurst(NextBurst(NoBurst, 0), 0)
    /\ NoUpdate

\* CollapsiblePlainTextEdit.keyPressEvent on the first block of the new
\* editor when it is no placeholder: the document changes, textChanged is
\* emitted and its slot update_timer.start runs
KeyPress(doc) ==
    /\ phase = "shown"
    /\ ~Due
    /\ new_doc[1].userState <= 0
    /\ doc \in KeyEdits(new_doc)
    /\ doc # new_doc
    /\ Len(toPlainText(doc)) <= MaxChars
    /\ new_doc' = doc
    /\ update_timer' = timer_start(update_timer)
    /\ since_edit' = 0
    /\ burst' = NextBurst(burst, since_edit)
    /\ UNCHANGED <<old_text, new_text, phase, original_old, original_new,
                   collapsed_sections, old_doc, highlight_src, clicked>>
    /\ UNCHANGED <<opcodes, update>>
    /\ UNCHANGED libvars

\* d ms pass without an event
Advance(d) ==
    /\ phase = "shown"
    /\ \A k \in 1..Len(update_timer) : update_timer[k] >= d
    /\ update_timer' = [k \in 1..Len(update_timer) |-> update_timer[k] - d]
    /\ since_edit' = Min2(since_edit + d, UPDATE_DELAY_MS)
    /\ UNCHANGED burst
    /\ UNCHANGED <<opcodes, update>>
    /\ UNCHANGED edvars
    /\ UNCHANGED libvars

\* update_timer.timeout, connected to update_diff: the timer is single
\* shot and stops, update_diff runs
Timeout ==
    /\ phase = "shown"
    /\ \E k \in 1..Len(update_timer) :
          /\ update_timer[k] = 0
          /\ update_timer' = Slice(update_timer, 0, k - 1)
                              \o Slice(update_timer, k, Len(update_timer))
    /\ highlight_src' = update_diff(old_doc, new_doc)
    /\ burst' = [burst EXCEPT !.updates = Min2(@ + 1, 2)]
    /\ UNCHANGED since_edit
    /\ UNCHANGED <<old_text, new_text, phase, original_old, original_new,
                   collapsed_sections, old_doc, new_doc, clicked>>
    /\ UNCHANGED <<opcodes, update>>
    /\ UNCHANGED libvars

NextTimer ==
    \/ \E doc \in KeyEdits(new_doc) : KeyPress(doc)
    \/ \E d \in TimeSteps : Advance(d)
    \/ Timeout

SpecTimer == InitTimer /\ [][NextTimer]_vars

----------------------------------------------------------------------------
(* Properties of the opcode streams *)

Tag(op) == op[1]

\* the opcodes' i-ranges run from i1 to i2 and their j-ranges from j1 to j2,
\* each opcode starting where the one before it ends
Covers(ops, i1, i2, j1, j2) ==
    /\ \A k \in 1..Len(ops) : ops[k][2] <= ops[k][3] /\ ops[k][4] <= ops[k][5]
    /\ IF ops = <<>> THEN i1 = i2 /\ j1 = j2
       ELSE /\ ops[1][2] = i1 /\ ops[1][4] = j1
            /\ ops[Len(ops)][3] = i2 /\ ops[Len(ops)][5] = j2
    /\ \A k \in 1..(Len(ops) - 1) :
          ops[k + 1][2] = ops[k][3] /\ ops[k + 1][4] = ops[k][5]

RECURSIVE ConcatOld(_, _, _)
ConcatOld(ops, s, k) ==
    IF k > Len(ops) THEN <<>>
    ELSE Slice(s, ops[k][2], ops[k][3]) \o ConcatOld(ops, s, k + 1)

RECURSIVE ConcatNew(_, _, _)
ConcatNew(ops, s, k) ==
    IF k > Len(ops) THEN <<>>
    ELSE Slice(s, ops[k][4], ops[k][5]) \o ConcatNew(ops, s, k + 1)

\* no two consecutive opcodes carry the same tag out of T
NoRepeat(ops, T) ==
    \A k \in 1..(Len(ops) - 1) : ~(Tag(ops[k]) \in T /\ Tag(ops[k + 1]) = Tag(ops[k]))

Generated == call.op = "generate_opcodes"
Refined == call.op = "refine_replace_block"

\* C1: the stream of generate_opcodes, refined or not, has contiguous,
\* monotone i-ranges from 0 to len(old) and j-ranges from 0 to len(new), and
\* the slices old[i1:i2] (new[j1:j2]) concatenated give back old (new).
C1_Coverage ==
    Generated =>
        /\ Covers(out, 0, Len(a), 0, Len(b))
        /\ ConcatOld(out, a, 1) = a
        /\ ConcatNew(out, b, 1) = b

\* a refined stream in which the refiner split a Replace block
C1_Witness ==
    /\ Generated /\ call.refine
    /\ Len(out) >= 3
    /\ \E k \in 1..(Len(out) - 1) : Tag(out[k]) = REPLACE /\ Tag(out[k + 1]) = REPLACE

\* C2 as stated: in the stream of generate_opcodes, refined or not, no two
\* consecutive opcodes carry the same tag.
C2_Original ==
    Generated => NoRepeat(out, {REPLACE, DELETE, INSERT, EQUAL})

\* C2 as amended: without refinement no two consecutive opcodes carry the
\* same tag; with refinement no two consecutive opcodes are both Insert or
\* both Delete.
C2_NoRepeatedTag ==
    Generated =>
        IF call.refine THEN NoRepeat(out, {DELETE, INSERT})
        ELSE NoRepeat(out, {REPLACE, DELETE, INSERT, EQUAL})

\* an unrefined stream with a Replace, and a refined one where the refiner
\* emitted an Insert or a Delete
C2_Witness ==
    /\ Generated
    /\ Len(out) >= 3
    /\ IF call.refine
       THEN \E k \in 1..(Len(out) - 1) :
                Tag(out[k]) = REPLACE /\ Tag(out[k + 1]) \in {DELETE, INSERT}
       ELSE \E k \in 1..Len(out) : Tag(out[k]) = REPLACE

\* C3: no two consecutive opcodes of the stream of generate_opcodes are
\* both Equal, the Equal opcodes of the refiner included.
C3_NoAdjacentEqual ==
    Generated => NoRepeat(out, {EQUAL})

\* C4: the opcodes of _refine_replace_block(i1, i2, j1, j2), i1 <= i2 and
\* j1 <= j2, are contiguous and cover exactly [i1, i2) and [j1, j2).
C4_RefinerSoundness ==
    Refined => Covers(out, call.i1, call.i2, call.j1, call.j2)

\* a call on ranges strictly inside the sequences that found a synch point
C4_Witness ==
    /\ Refined
    /\ (0 < call.i1 \/ call.i2 < Len(a) \/ 0 < call.j1 \/ call.j2 < Len(b))
    /\ \E k \in 1..Len(out) : out[k][3] = out[k][2] + 1 /\ out[k][5] = out[k][4] + 1
    /\ Len(out) >= 2

\* C5: for empty old and non-empty new the stream is the single opcode
\* Insert(0, 0, 0, len(new)); for non-empty old and empty new it is the
\* single opcode Delete(0, len(old), 0, 0).
C5_EmptyInputs ==
    Generated =>
        /\ (a = <<>> /\ b # <<>>) => out = <<<<INSERT, 0, 0, 0, Len(b)>>>>
        /\ (a # <<>> /\ b = <<>>) => out = <<<<DELETE, 0, Len(a), 0, 0>>>>

\* a refined stream for an empty old and two new lines or more
C5_Witness ==
    /\ Generated /\ call.refine
    /\ a = <<>> /\ Len(b) >= 2
    /\ out = <<<<INSERT, 0, 0, 0, Len(b)>>>>

\* C6 as stated: diffing a sequence against itself, the empty sequence
\* included, yields the single opcode Equal(0, len(s), 0, len(s)).
C6_Original ==
    (Generated /\ a = b) => out = <<<<EQUAL, 0, Len(a), 0, Len(a)>>>>

\* C6 as amended: diffing a non-empty sequence against itself yields the
\* single opcode Equal(0, len(s), 0, len(s)); diffing the empty sequence
\* against itself yields no opcode.
C6_Idempotence ==
    (Generated /\ a = b) =>
        IF a = <<>> THEN out = <<>>
        ELSE out = <<<<EQUAL, 0, Len(a), 0, Len(a)>>>>

\* a sequence with a repeated line diffed against itself
C6_Witness ==
    /\ Generated /\ a = b
    /\ Len(a) >= 2 /\ a[1] = a[2]
    /\ out = <<<<EQUAL, 0, Len(a), 0, Len(a)>>>>

----------------------------------------------------------------------------
(* Properties of the collapsed display *)

\* the text of the block a line makes: the line without its line break
LineText(line) ==
    IF line # <<>> /\ line[Len(line)] = NL
    THEN SubSeq(line, 1, Len(line) - 1) ELSE line

\* an opcode whose run is longer than the threshold
OverThreshold(op) ==
    op[1] = "equal" /\ op[3] - op[2] > COLLAPSE_THRESHOLD_LINES

\* the number of display lines an opcode takes on the old and the new side
ShownOld(op) ==
    IF OverThreshold(op) THEN 2 * COLLAPSE_CONTEXT_LINES + 1 ELSE op[3] - op[2]

ShownNew(op) ==
    IF OverThreshold(op) THEN 2 * COLLAPSE_CONTEXT_LINES + 1 ELSE op[5] - op[4]

\* the display line at which the n-th opcode starts, and the number of
\* opcodes over the threshold before it
RECURSIVE StartOld(_, _)
StartOld(ops, n) == IF n = 1 THEN 0 ELSE StartOld(ops, n - 1) + ShownOld(ops[n - 1])

RECURSIVE StartNew(_, _)
StartNew(ops, n) == IF n = 1 THEN 0 ELSE StartNew(ops, n - 1) + ShownNew(ops[n - 1])

NumOver(ops, n) == Cardinality({m \in 1..(n - 1) : OverThreshold(ops[m])})

NumOverAll(ops) == NumOver(ops, Len(ops) + 1)

\* the identifiers of the placeholders of a document, from its top down
Ids(doc) ==
    SelectSeq([n \in 1..Len(doc) |-> doc[n].userState - 1], LAMBDA x : x >= 0)

\* blocks start .. start + n - 1 of doc show lines lo .. lo + n - 1 of orig
\* and none of them is a placeholder
ShowsLines(doc, start, orig, lo, n) ==
    \A d \in 0..(n - 1) :
        /\ BlockIsValid(doc, start + d)
        /\ At(doc, start + d) = Block(LineText(At(orig, lo + d)), -1)

\* one side of the display of a collapsed opcode whose lines are
\* lo .. hi - 1 of orig and whose section has the index idx
ShowsCollapsed(doc, start, orig, lo, hi, idx) ==
    LET ctx == COLLAPSE_CONTEXT_LINES IN
    /\ ShowsLines(doc, start, orig, lo, ctx)
    /\ BlockIsValid(doc, start + ctx)
    /\ At(doc, start + ctx) = Block(<<PlaceholderText((hi - lo) - 2 * ctx)>>, idx + 1)
    /\ ShowsLines(doc, start + ctx + 1, orig, hi - ctx, ctx)

\* C7 (as the specification states it): every section of the table holds
\* at least one hidden line. The code collapses a run of
\* COLLAPSE_THRESHOLD_LINES + 1 = 2 * COLLAPSE_CONTEXT_LINES lines into a
\* placeholder that hides no line.
C7_CollapseGuard ==
    \A k \in 1..Len(collapsed_sections) : Len(collapsed_sections[k]) >= 1

\* what set_diff_text leaves for the n-th opcode
PolicyAt(orig_old, orig_new, sections, odoc, ndoc, ops, n) ==
    LET op == ops[n]
        ctx == COLLAPSE_CONTEXT_LINES
        idx == NumOver(ops, n)
    IN IF OverThreshold(op)
       THEN /\ ShowsCollapsed(odoc, StartOld(ops, n), orig_old, op[2], op[3], idx)
            /\ ShowsCollapsed(ndoc, StartNew(ops, n), orig_new, op[4], op[5], idx)
            /\ idx < Len(sections)
            /\ At(sections, idx) = Slice(orig_old, op[2] + ctx, op[3] - ctx)
            /\ Len(At(sections, idx)) = (op[3] - op[2]) - 2 * ctx
       ELSE /\ ShowsLines(odoc, StartOld(ops, n), orig_old, op[2], op[3] - op[2])
            /\ ShowsLines(ndoc, StartNew(ops, n), orig_new, op[4], op[5] - op[4])

Policy(orig_old, orig_new, sections, odoc, ndoc, ops) ==
    /\ \A n \in 1..Len(ops) :
          PolicyAt(orig_old, orig_new, sections, odoc, ndoc, ops, n)
    /\ Len(sections) = NumOverAll(ops)
    /\ Len(Ids(odoc)) = Len(sections)
    /\ Len(Ids(ndoc)) = Len(sections)

\* C8: set_diff_text shows an Equal opcode of more than
\* COLLAPSE_THRESHOLD_LINES lines, on each side, as its first
\* COLLAPSE_CONTEXT_LINES lines, one placeholder and its last
\* COLLAPSE_CONTEXT_LINES lines, and appends one section with the lines
\* between, its index the length of the table before; every other opcode
\* is shown in full and gets no section.
C8_CollapsePolicy ==
    [][(phase = "constructed" /\ phase' = "shown")
        => \E ops \in {get_opcodes(original_old', original_new')} :
              Policy(original_old', original_new', collapsed_sections',
                     old_doc', new_doc', ops)]_vars

\* C8 witness: set_diff_text has shown two collapsed runs, an Equal run of
\* exactly COLLAPSE_THRESHOLD_LINES lines and an opcode that is not Equal
PolicyCases(ops) ==
    /\ \E n \in 1..Len(ops) :
          ops[n][1] = "equal" /\ ops[n][3] - ops[n][2] = COLLAPSE_THRESHOLD_LINES
    /\ \E n \in 1..Len(ops) : ops[n][1] # "equal"
    /\ NumOverAll(ops) = 2

C8_Witness ==
    /\ phase = "shown"
    /\ Ids(old_doc) = <<0, 1>>
    /\ Ids(new_doc) = <<0, 1>>
    /\ Len(collapsed_sections) = 2
    /\ PolicyCases(get_opcodes(original_old, original_new))

\* the text of doc from block n on with every placeholder line replaced by
\* the hidden lines of the section it identifies
RECURSIVE Restored(_, _, _)
Restored(doc, sections, n) ==
    IF n > Len(doc) THEN <<>>
    ELSE IF doc[n].userState >= 1
         THEN join(sections[doc[n].userState]) \o Restored(doc, sections, n + 1)
         ELSE doc[n].text \o (IF n < Len(doc) THEN <<NL>> ELSE <<>>)
              \o Restored(doc, sections, n + 1)

\* every placeholder of doc identifies an entry of the table
Identifies(doc, sections) ==
    \A n \in 1..Len(doc) : doc[n].userState <= Len(sections)

RoundTrip(doc, sections, orig) ==
    /\ Identifies(doc, sections)
    /\ splitlines(Restored(doc, sections, 1)) = orig

\* C9: at any time after the construction, each side's display with its
\* placeholder lines replaced by the hidden lines of their sections is the
\* side's original line sequence; when no placeholder is left the table is
\* empty and the two displays are the two texts.
C9_RoundTrip ==
    /\ RoundTrip(old_doc, collapsed_sections, original_old)
    /\ RoundTrip(new_doc, collapsed_sections, original_new)
    /\ phase = "shown" =>
        /\ original_old = splitlines(old_text)
        /\ original_new = splitlines(new_text)
        /\ (Ids(old_doc) = <<>> \/ Ids(new_doc) = <<>> \/ collapsed_sections = <<>>) =>
            /\ collapsed_sections = <<>>
            /\ toPlainText(old_doc) = old_text
            /\ toPlainText(new_doc) = new_text

\* C9 witness: two texts that differ, with two runs or more that
\* set_diff_text collapses, after every section has been expanded
C9_Witness ==
    /\ phase = "shown"
    /\ collapsed_sections = <<>>
    /\ old_text # new_text
    /\ NumOverAll(get_opcodes(original_old, original_new)) >= 2

\* the identifiers of doc after the entry k of the table is removed
Shifted(ids, k) ==
    LET rest == SelectSeq(ids, LAMBDA x : x # k) IN
    [p \in 1..Len(rest) |-> IF rest[p] > k THEN rest[p] - 1 ELSE rest[p]]

\* the placeholders other than k, from the top of the document down, keep
\* their hidden lines
KeepsHidden(ids, ids2, k, sections, sections2) ==
    LET rest == SelectSeq(ids, LAMBDA x : x # k) IN
    /\ Len(ids2) = Len(rest)
    /\ \A p \in 1..Len(rest) :
          /\ ids2[p] < Len(sections2)
          /\ At(sections2, ids2[p]) = At(sections, rest[p])

Renumbered(k, sections, sections2, odoc, odoc2, ndoc, ndoc2) ==
    /\ Len(sections2) = Len(sections) - 1
    /\ \A m \in 0..(Len(sections2) - 1) :
          At(sections2, m) = At(sections, IF m < k THEN m ELSE m + 1)
    /\ Ids(odoc2) = Shifted(Ids(odoc), k)
    /\ Ids(ndoc2) = Shifted(Ids(ndoc), k)
    /\ KeepsHidden(Ids(odoc), Ids(odoc2), k, sections, sections2)
    /\ KeepsHidden(Ids(ndoc), Ids(ndoc2), k, sections, sections2)

\* C10: expand_section(k) with k in range removes the entry k of the table,
\* takes one from every placeholder identifier above k, leaves those below
\* k, and every placeholder left identifies the hidden lines it identified.
C10_ExpandRenumbering ==
    [][\A k \in 0..(Len(collapsed_sections) - 1) :
          ExpandSection(k) =>
              Renumbered(k, collapsed_sections, collapsed_sections',
                         old_doc, old_doc', new_doc, new_doc')]_vars

\* C10 witness: of three sections with different hidden lines the middle one
\* has been expanded, and the two placeholders left are numbered 0 and 1
C10_Witness ==
    /\ phase = "shown"
    /\ Len(collapsed_sections) = 2
    /\ collapsed_sections[1] # collapsed_sections[2]
    /\ Ids(old_doc) = <<0, 1>>
    /\ Ids(new_doc) = <<0, 1>>
    /\ NumOverAll(get_opcodes(original_old, original_new)) = 3
    /\ old_doc[COLLAPSE_CONTEXT_LINES + 1].userState = 1

\* C11: expand_section(k) with k < 0 or k >= len(collapsed_sections) raises
\* no error and leaves both documents (texts and placeholder identifiers)
\* and the table of collapsed sections as they are, also when k was the
\* identifier of a section that has been expanded since.
C11_OutOfRangeNoOp ==
    [][\A k \in -1..Len(collapsed_sections) :
          (ExpandSection(k) /\ (k < 0 \/ k >= Len(collapsed_sections)))
              => /\ clicked'.outcome = "ignored"
                 /\ UNCHANGED <<old_doc, new_doc, collapsed_sections>>
                 /\ Ids(old_doc') = Ids(old_doc)
                 /\ Ids(new_doc') = Ids(new_doc)]_vars

\* C11 witness: of two sections the one with identifier 1 has been
\* expanded, and a second click with that identifier has been ignored
C11_Witness ==
    /\ phase = "shown"
    /\ clicked = Click(1, "ignored")
    /\ Len(collapsed_sections) = 1
    /\ Ids(old_doc) = <<0>>
    /\ NumOverAll(get_opcodes(original_old, original_new)) = 2

\* the block after the last line break of a text: it shows no line of the
\* text, and its number is one more than the number of lines
AfterLastLine(doc, orig, n, number) ==
    /\ n = Len(doc)
    /\ doc[n].text = <<>>
    /\ number = Len(orig) + 1
    /\ orig # <<>> => orig[Len(orig)][Len(orig[Len(orig)])] = NL

\* every block of doc that is no placeholder has in the cache the 1-based
\* position in orig of the line it shows, and these grow down the document
NumbersLines(doc, sections, orig, cache) ==
    /\ Len(cache) = Len(doc)
    /\ \A n \in 1..Len(doc) :
          doc[n].userState <= 0 =>
              \/ /\ cache[n] \in 1..Len(orig)
                 /\ doc[n].text = LineText(orig[cache[n]])
              \/ AfterLastLine(doc, orig, n, cache[n])
    /\ \A n \in 1..Len(doc), m \in 1..Len(doc) :
          (n < m /\ doc[n].userState <= 0 /\ doc[m].userState <= 0)
              => cache[n] < cache[m]

\* C12: after set_diff_text and after any expand_section calls the cache
\* _build_cache builds gives every displayed line that is no placeholder,
\* on each side, its 1-based position in the side's original lines.
C12_LineNumbers ==
    /\ NumbersLines(old_doc, collapsed_sections, original_old,
                    build_cache(old_doc, collapsed_sections))
    /\ NumbersLines(new_doc, collapsed_sections, original_new,
                    build_cache(new_doc, collapsed_sections))

\* C12 witness: a section has been expanded, two placeholders that hide
\* different numbers of lines are left, and the two sides number the lines
\* after them differently
C12_Witness ==
    /\ phase = "shown"
    /\ clicked.outcome = "expanded"
    /\ Len(collapsed_sections) = 2
    /\ Len(collapsed_sections[1]) # Len(collapsed_sections[2])
    /\ Len(original_old) # Len(original_new)
    /\ \E n \in 1..Len(old_doc) :
          old_doc[n].userState <= 0
          /\ build_cache(old_doc, collapsed_sections)[n] > n

----------------------------------------------------------------------------
(* One call of update_diff as a state machine: the editor shows two short  *)
(* texts, update_diff reads them, takes the list of (op, length) pairs     *)
(* fast_diff_match_patch.diff returns for them and goes through its loop,  *)
(* one pass a step. The library is not part of the repository: diff is     *)
(* any list of "=", "-" and "+" pairs of length 1 or more that is an edit  *)
(* script from the old text to the new one.                                *)

\* the edit scripts from old[i:] to new[j:]
RECURSIVE DiffsFrom(_, _, _, _)
DiffsFrom(old, new, i, j) ==
    IF i = Len(old) /\ j = Len(new) THEN {<<>>}
    ELSE
      UNION {{<<<<"=", n>>>> \o rest : rest \in DiffsFrom(old, new, i + n, j + n)} :
                n \in {m \in 1..Min2(Len(old) - i, Len(new) - j) :
                          Slice(old, i, i + m) = Slice(new, j, j + m)}}
      \cup
      UNION {{<<<<"-", n>>>> \o rest : rest \in DiffsFrom(old, new, i + n, j)} :
                n \in 1..(Len(old) - i)}
      \cup
      UNION {{<<<<"+", n>>>> \o rest : rest \in DiffsFrom(old, new, i, j + n)} :
                n \in 1..(Len(new) - j)}

\* fast_diff_match_patch.diff(old, new, timelimit=0.1, checklines=True,
\* counts_only=True)
Diffs(old, new) == DiffsFrom(old, new, 0, 0)

DEL_COLOR == "Removed"
ADD_COLOR == "Added"

\* cursor.movePosition(NextCharacter, mode, length) in a document of
\* doc_len characters: the cursor stops at the end of the document
movePosition(position, length, doc_len) == Min2(position + length, doc_len)

\* _one_diff_highlight(length, color, cursor): the selection from the
\* cursor over length characters; the cursor moves behind it
one_diff_highlight(length, color, position, doc_len) ==
    [start |-> position,
     length |-> movePosition(position, length, doc_len) - position,
     kind |-> color]

\* a pass of the loop that takes the pair after a "-" for a "+"
LoopPass_takes_next_for_added(ops, u, old_len, new_len) ==
    LET op == ops[u.i + 1][1]
        length == ops[u.i + 1][2]
        is_modification == op = "-" /\ u.i + 1 < Len(ops)
    IN IF is_modification
       THEN [u EXCEPT
               !.old_highlights =
                   Append(@, one_diff_highlight(length, DEL_COLOR, u.old_cursor, old_len)),
               !.old_cursor = movePosition(@, length, old_len),
               !.new_highlights =
                   Append(@, one_diff_highlight(ops[u.i + 2][2], ADD_COLOR,
                                                u.new_cursor, new_len)),
               !.new_cursor = movePosition(@, ops[u.i + 2][2], new_len),
               !.i = @ + 2]
       ELSE IF op = "+"
       THEN [u EXCEPT
               !.new_highlights =
                   Append(@, one_diff_highlight(length, ADD_COLOR, u.new_cursor, new_len)),
               !.new_cursor = movePosition(@, length, new_len),
               !.i = @ + 1]
       ELSE IF op = "-"
       THEN [u EXCEPT
               !.old_highlights =
                   Append(@, one_diff_highlight(length, DEL_COLOR, u.old_cursor, old_len)),
               !.old_cursor = movePosition(@, length, old_len),
               !.i = @ + 1]
       ELSE IF op = "="
       THEN [u EXCEPT
               !.old_cursor = movePosition(@, length, old_len),
               !.new_cursor = movePosition(@, length, new_len),
               !.i = @ + 1]
       ELSE [u EXCEPT !.i = @ + 1]

\* one pass of the while loop of update_diff, u the locals before it
LoopPass(ops, u, old_len, new_len) ==
    LET op == ops[u.i + 1][1]
        length == ops[u.i + 1][2]
        is_modification ==
            op = "-" /\ u.i + 1 < Len(ops) /\ ops[u.i + 2][1] = "+"
    IN IF is_modification
       THEN [u EXCEPT
               !.old_highlights =
                   Append(@, one_diff_highlight(length, DEL_COLOR, u.old_cursor, old_len)),
               !.old_cursor = movePosition(@, length, old_len),
               !.new_highlights =
                   Append(@, one_diff_highlight(ops[u.i + 2][2], ADD_COLOR,
                                                u.new_cursor, new_len)),
               !.new_cursor = movePosition(@, ops[u.i + 2][2], new_len),
               !.i = @ + 2]
       ELSE IF op = "+"
       THEN [u EXCEPT
               !.new_highlights =
                   Append(@, one_diff_highlight(length, ADD_COLOR, u.new_cursor, new_len)),
               !.new_cursor = movePosition(@, length, new_len),
               !.i = @ + 1]
       ELSE IF op = "-"
       THEN [u EXCEPT
               !.old_highlights =
                   Append(@, one_diff_highlight(length, DEL_COLOR, u.old_cursor, old_len)),
               !.old_cursor = movePosition(@, length, old_len),
               !.i = @ + 1]
       ELSE IF op = "="
       THEN [u EXCEPT
               !.old_cursor = movePosition(@, length, old_len),
               !.new_cursor = movePosition(@, length, new_len),
               !.i = @ + 1]
       ELSE [u EXCEPT !.i = @ + 1]

\* the texts the editor is given
HighlightTexts == SeqsUpTo(Typed, MaxChars)

\* the editor after MainWindow.__init__, no call of update_diff in progress
InitHighlight ==
    /\ NoMatcher
    /\ old_text \in HighlightTexts
    /\ new_text \in HighlightTexts
    /\ phase = "shown"
    /\ \E r \in {set_diff_text(old_text, new_text)} :
        /\ original_old = r.original_old
        /\ original_new = r.original_new
        /\ collapsed_sections = r.collapsed_sections
        /\ old_doc = r.old_doc
        /\ new_doc = r.new_doc
        /\ highlight_src = update_diff(r.old_doc, r.new_doc)
    /\ clicked = NoClick
    /\ NoTimer
    /\ NoUpdate

\* update_diff() up to its loop: the two texts are read and diffed, the
\* cursors are moved to the start
UpdateDiffBegin ==
    /\ update.pc \in {"idle", "done"}
    /\ highlight_src' = update_diff(old_doc, new_doc)
    /\ opcodes' \in Diffs(toPlainText(old_doc), toPlainText(new_doc))
    /\ update' = [NoLoop EXCEPT !.pc = "loop"]
    /\ UNCHANGED <<old_text, new_text, phase, original_old, original_new,
                   collapsed_sections, old_doc, new_doc, clicked>>
    /\ UNCHANGED <<update_timer, since_edit, burst>>
    /\ UNCHANGED libvars

\* one pass of the loop of update_diff
UpdateDiffLoop ==
    /\ update.pc = "loop"
    /\ update.i < Len(opcodes)
    /\ update' = LoopPass(opcodes, update, Len(highlight_src[1]), Len(highlight_src[2]))
    /\ UNCHANGED opcodes
    /\ UNCHANGED <<update_timer, since_edit, burst>>
    /\ UNCHANGED edvars
    /\ UNCHANGED libvars

\* update_diff() after its loop: the highlights are applied
UpdateDiffEnd ==
    /\ update.pc = "loop"
    /\ update.i >= Len(opcodes)
    /\ update' = [update EXCEPT !.pc = "done"]
    /\ UNCHANGED opcodes
    /\ UNCHANGED <<update_timer, since_edit, burst>>
    /\ UNCHANGED edvars
    /\ UNCHANGED libvars

NextHighlight ==
    \/ UpdateDiffBegin
    \/ UpdateDiffLoop
    \/ UpdateDiffEnd

SpecHighlight == InitHighlight /\ [][NextHighlight]_vars

----------------------------------------------------------------------------
(* Properties of the update timer *)

\* at most one timeout is pending; the timer has made at most one call of
\* update_diff since the burst began, and it is pending as long as it has
\* made none
OnePending ==
    /\ Len(update_timer) <= 1
    /\ burst.updates <= 1
    /\ burst.edits > 0 => (burst.updates = 0 <=> update_timer # <<>>)

\* a textChanged while a timeout is pending starts the delay again, and no
\* second timeout is kept; one that begins a new burst finds that the
\* timer has made its one call for the burst before; the timer calls
\* update_diff only when UPDATE_DELAY_MS have passed since the last
\* textChanged
Debounced ==
    /\ (\E doc \in KeyEdits(new_doc) : KeyPress(doc)) =>
          /\ update_timer' = <<UPDATE_DELAY_MS>>
          /\ since_edit < UPDATE_DELAY_MS =>
                burst.updates = 0 /\ burst'.updates = 0
          /\ since_edit >= UPDATE_DELAY_MS =>
                burst.updates = 1 /\ burst' = [edits |-> 1, updates |-> 0]
    /\ Timeout =>
          /\ since_edit >= UPDATE_DELAY_MS
          /\ burst'.updates = 1
          /\ update_timer' = <<>>

----------------------------------------------------------------------------
(* Properties of the highlights *)

\* the summed lengths of the "=" pairs and the pairs tagged tag among the
\* first n pairs of ops
RECURSIVE OffsetAfter(_, _, _)
OffsetAfter(ops, n, tag) ==
    IF n = 0 THEN 0
    ELSE OffsetAfter(ops, n - 1, tag)
         + (IF ops[n][1] \in {"=", tag} THEN ops[n][2] ELSE 0)

\* one range for each pair tagged tag among the first n pairs of ops, in
\* their order
RangesOf(ops, n, tag, kind) ==
    LET at == SelectSeq([k \in 1..n |-> k], LAMBDA k : ops[k][1] = tag) IN
    [p \in 1..Len(at) |->
        [start |-> OffsetAfter(ops, at[p] - 1, tag),
         length |-> ops[at[p]][2],
         kind |-> kind]]

\* C14: once update_diff has gone through the first i pairs of the stream,
\* and so at its end, old_highlights holds one Removed range for each "-"
\* pair, at the summed lengths of the "=" and "-" pairs before it and of
\* its length, and new_highlights one Added range for each "+" pair, at
\* the summed lengths of the "=" and "+" pairs before it; a "-" directly
\* followed by a "+" gives these same two ranges, a "=" gives none.
C14_HighlightRanges ==
    update.pc # "idle" =>
        /\ update.i <= Len(opcodes)
        /\ update.old_highlights = RangesOf(opcodes, update.i, "-", "Removed")
        /\ update.new_highlights = RangesOf(opcodes, update.i, "+", "Added")
        /\ update.old_cursor = OffsetAfter(opcodes, update.i, "-")
        /\ update.new_cursor = OffsetAfter(opcodes, update.i, "+")

\* C14 witness: update_diff has finished a stream with a "=" pair, then a
\* "-" pair directly followed by a "+" pair: one character replaced at
\* offset 1
C14_Witness ==
    /\ update.pc = "done"
    /\ opcodes = <<<<"=", 1>>, <<"-", 1>>, <<"+", 1>>>>
    /\ update.old_highlights = <<[start |-> 1, length |-> 1, kind |-> "Removed"]>>
    /\ update.new_highlights = <<[start |-> 1, length |-> 1, kind |-> "Added"]>>

----------------------------------------------------------------------------
(* Properties of the refiner *)

\* the pairs (i, j) of the ranges, and the order in which the search
\* visits them: for j in range(j1, j2): for i in range(i1, i2)
PairsOf(i1, i2, j1, j2) == (i1..(i2 - 1)) \X (j1..(j2 - 1))

Earlier(p, q) == p[2] < q[2] \/ (p[2] = q[2] /\ p[1] < q[1])

\* the similarity ratio of the pair p of lines
Similarity(a2, b2, p) == ratio(At(a2, p[1]), At(b2, p[2]))

Identical(a2, b2, p) == At(a2, p[1]) = At(b2, p[2])

\* the pairs of different lines whose ratio is REFINE_CUTOFF or more
ClosePairs(a2, b2, pairs) ==
    {p \in pairs : ~Identical(a2, b2, p) /\ RatLE(REFINE_CUTOFF, Similarity(a2, b2, p))}

IdenticalPairs(a2, b2, pairs) == {p \in pairs : Identical(a2, b2, p)}

\* p has the best ratio of the pairs in close
BestOf(a2, b2, close, p) ==
    /\ p \in close
    /\ \A q \in close : RatLE(Similarity(a2, b2, q), Similarity(a2, b2, p))

\* ops synchronise the ranges on the pair p with the tag tag: the one-line
\* opcode of p is among them, those before it cover the ranges before p
\* and those after it the ranges after p
SynchronisedOn(ops, i1, i2, j1, j2, p, tag) ==
    \E k \in 1..Len(ops) :
        /\ ops[k] = <<tag, p[1], p[1] + 1, p[2], p[2] + 1>>
        /\ Covers(SubSeq(ops, 1, k - 1), i1, p[1], j1, p[2])
        /\ Covers(SubSeq(ops, k + 1, Len(ops)), p[1] + 1, i2, p[2] + 1, j2)

DecisionRule(a2, b2, ops, i1, i2, j1, j2, close, same) ==
    /\ close # {} =>
          \E p \in close :
              /\ BestOf(a2, b2, close, p)
              /\ SynchronisedOn(ops, i1, i2, j1, j2, p, REPLACE)
    /\ (close = {} /\ same # {}) =>
          \E p \in same :
              /\ \A q \in same : p = q \/ Earlier(p, q)
              /\ SynchronisedOn(ops, i1, i2, j1, j2, p, EQUAL)
    /\ \A k \in 1..Len(ops) :
          ops[k][1] = EQUAL =>
              /\ ops[k][3] = ops[k][2] + 1
              /\ ops[k][5] = ops[k][4] + 1
              /\ At(a2, ops[k][2]) = At(b2, ops[k][4])

\* C15: _refine_replace_block on non-empty ranges synchronises on a pair
\* of different lines with the best ratio, and yields Replace for it, when
\* some pair of different lines has a ratio of REFINE_CUTOFF or more, an
\* identical pair or not; otherwise, when there is an identical pair, on
\* the first one in search order, and yields Equal for it; it yields a
\* one-line Equal for identical lines only.
C15_DecisionRule ==
    (Refined /\ call.i1 < call.i2 /\ call.j1 < call.j2) =>
        DecisionRule(a, b, out, call.i1, call.i2, call.j1, call.j2,
                     ClosePairs(a, b, PairsOf(call.i1, call.i2, call.j1, call.j2)),
                     IdenticalPairs(a, b, PairsOf(call.i1, call.i2, call.j1, call.j2)))

\* C15 witness: a call whose ranges hold an identical pair that comes
\* first in search order and a pair with exactly the ratio REFINE_CUTOFF,
\* on which it synchronised
C15_Witness ==
    /\ Refined
    /\ a = <<LineAtoFW, LineAtoI>>
    /\ b = <<LineAtoFW, LineAtoI>>
    /\ call.i1 = 0 /\ call.i2 = 2 /\ call.j1 = 0 /\ call.j2 = 2
    /\ out = <<<<DELETE, 0, 1, 0, 0>>, <<REPLACE, 1, 2, 0, 1>>, <<INSERT, 2, 2, 1, 2>>>>

\* the opcode op is the one-line Replace of a synchronisation pair: two
\* different lines with a ratio of REFINE_CUTOFF or more
SynchReplace(a2, b2, op) ==
    /\ op[3] = op[2] + 1
    /\ op[5] = op[4] + 1
    /\ ClosePairs(a2, b2, {<<op[2], op[4]>>}) # {}

\* the opcode op is a fallback: its ranges are not empty and hold no
\* synchronisation point, neither an identical pair nor a pair with a
\* ratio of REFINE_CUTOFF or more
FallbackReplace(a2, b2, op) ==
    /\ op[2] < op[3]
    /\ op[4] < op[5]
    /\ ClosePairs(a2, b2, PairsOf(op[2], op[3], op[4], op[5])) = {}
    /\ IdenticalPairs(a2, b2, PairsOf(op[2], op[3], op[4], op[5])) = {}

\* C16: every Replace _refine_replace_block yields is the one-line opcode
\* of a synchronisation pair or a fallback over ranges that hold no
\* identical pair and no pair with a ratio of REFINE_CUTOFF or more; no
\* Replace covers ranges that hold a synchronisation point and more.
C16_ReplaceGranularity ==
    (Refined \/ (Generated /\ call.refine)) =>
        \A k \in 1..Len(out) :
            out[k][1] = REPLACE =>
                SynchReplace(a, b, out[k]) \/ FallbackReplace(a, b, out[k])

\* C16 witness: a call on two lines each side whose four pairs have a
\* ratio between the initial best_ratio and REFINE_CUTOFF, answered with
\* the fallback
C16_Witness ==
    /\ Refined
    /\ a = <<LineAtoI, LineAtoI>>
    /\ b = <<LineAtoGXYZ, LineAtoGXYZ>>
    /\ out = <<<<REPLACE, 0, 2, 0, 2>>>>

\* the opcode op over a2 and b2 is not empty and its ranges are those of
\* its tag
WellFormed(a2, b2, op) ==
    /\ 0 <= op[2] /\ op[3] <= Len(a2)
    /\ 0 <= op[4] /\ op[5] <= Len(b2)
    /\ \/ op[1] = DELETE /\ op[2] < op[3] /\ op[4] = op[5]
       \/ op[1] = INSERT /\ op[2] = op[3] /\ op[4] < op[5]
       \/ op[1] = REPLACE /\ op[2] < op[3] /\ op[4] < op[5]
       \/ /\ op[1] = EQUAL
          /\ op[3] - op[2] = op[5] - op[4]
          /\ op[3] - op[2] > 0
          /\ Slice(a2, op[2], op[3]) = Slice(b2, op[4], op[5])

\* C17: every opcode generate_opcodes yields, refined or not, and every
\* opcode _refine_replace_block yields, is not empty and matches its tag:
\* a Delete has i1 < i2 and j1 = j2, an Insert i1 = i2 and j1 < j2, a
\* Replace i1 < i2 and j1 < j2, an Equal i2 - i1 = j2 - j1 > 0 and the same
\* lines on both sides.
C17_WellFormedOpcodes ==
    (Generated \/ Refined) =>
        \A k \in 1..Len(out) : WellFormed(a, b, out[k])

\* C17 witness: a refined stream of generate_opcodes that holds an Equal, a
\* Replace and an Insert or a Delete
C17_Witness ==
    /\ Generated
    /\ call.refine
    /\ \E k \in 1..Len(out) : out[k][1] = EQUAL
    /\ \E k \in 1..Len(out) : out[k][1] = REPLACE
    /\ \E k \in 1..Len(out) : out[k][1] \in {INSERT, DELETE}

----------------------------------------------------------------------------
(* _get_intra_line_opcodes, my_diff_lib.py lines 112-117. The matcher is   *)
(* built with isjunk None and the default autojunk; get_opcodes is not     *)
(* overridden, so its tags are the strings of difflib, and the filter      *)
(* compares each of them with EQUAL, a member of the IntEnum Tag.          *)

\* Python's None, told apart from every line
None == <<"None">>

\* a Python str and a member of Tag, each with its type
PyStr(s) == [type |-> "str", value |-> s]
PyTag(t) == [type |-> "Tag", value |-> t]

\* x != y in Python, for x and y each a str or a member of Tag: neither
\* str.__ne__ nor int.__ne__ accepts the other type, so two values of
\* different types are unequal
PyNe(x, y) == x.type # y.type \/ x.value # y.value

\* SequenceMatcher(None, from_line, to_line).get_opcodes()
IntraOpcodes(from_line, to_line) ==
    GetOpcodesLoop(get_matching_blocks(from_line, to_line, {}, TRUE), 1, 0, 0)

\* tag != EQUAL, with tag out of get_opcodes
KeptByFilter(op) == PyNe(PyStr(op[1]), PyTag(EQUAL))

get_intra_line_opcodes(from_line, to_line) ==
    IF from_line = None \/ to_line = None THEN <<>>
    ELSE SelectSeq(IntraOpcodes(from_line, to_line), KeptByFilter)

IntraChars == {"a", "b"}

IntraLines == SeqsUpTo(IntraChars, MaxLineChars) \cup {None}

\* a pair of lines, or None for a side that has no line
InitIntraLine ==
    /\ NoEditor
    /\ a \in IntraLines
    /\ b \in IntraLines
    /\ call = NoCall
    /\ out = <<>>

\* _get_intra_line_opcodes(a, b)
GetIntraLineOpcodes ==
    /\ call.op = "none"
    /\ call' = [NoCall EXCEPT !.op = "_get_intra_line_opcodes"]
    /\ out' = get_intra_line_opcodes(a, b)
    /\ UNCHANGED <<a, b>>
    /\ UNCHANGED edvars
    /\ UNCHANGED updvars

NextIntraLine == GetIntraLineOpcodes

SpecIntraLine == InitIntraLine /\ [][NextIntraLine]_vars

IntraCalled == call.op = "_get_intra_line_opcodes"

\* the opcodes ops without those tagged equal
WithoutEqual(ops) == SelectSeq(ops, LAMBDA op : op[1] # "equal")

\* C18: _get_intra_line_opcodes returns the empty list when either argument
\* is None; for two lines it returns the character opcodes of the pair
\* with every equal-tagged opcode removed, so that the result holds only
\* replace, insert and delete opcodes and is empty for two identical lines.
C18_IntraLineFilter ==
    IntraCalled =>
        IF a = None \/ b = None THEN out = <<>>
        ELSE /\ out = WithoutEqual(IntraOpcodes(a, b))
             /\ \A k \in 1..Len(out) : out[k][1] \in {"replace", "insert", "delete"}
             /\ (a = b => out = <<>>)

\* the identifiers 0, 1, ..., n - 1 in increasing order
IdsUpTo(n) == [p \in 1..n |-> p - 1]

\* C19: after set_diff_text and any sequence of expand_section calls, in
\* range or not, the placeholder identifiers of the displayed lines are on
\* each side exactly 0, 1, ..., len(collapsed_sections) - 1, each on one
\* line and in increasing order down the display; no line carries an
\* identifier outside the table, and both sides carry the same identifiers.
C19_PlaceholderBijection ==
    /\ Ids(old_doc) = IdsUpTo(Len(collapsed_sections))
    /\ Ids(new_doc) = IdsUpTo(Len(collapsed_sections))
    /\ Ids(old_doc) = Ids(new_doc)
    /\ \A n \in 1..Len(old_doc) :
          old_doc[n].userState - 1 < Len(collapsed_sections)
    /\ \A n \in 1..Len(new_doc) :
          new_doc[n].userState - 1 < Len(collapsed_sections)

\* C19 witness: two texts that differ with three collapsed runs, the first
\* of which has been expanded, so that both placeholders left were
\* renumbered
C19_Witness ==
    /\ phase = "shown"
    /\ old_text # new_text
    /\ clicked = Click(0, "expanded")
    /\ Len(collapsed_sections) = 2
    /\ Ids(old_doc) = <<0, 1>>
    /\ Ids(new_doc) = <<0, 1>>

====
